---- MODULE Spec2Model ----
(***************************************************************************)
(* Model of claude_code_session_client: the file-backed session store      *)
(* (SessionData / SimpleSessionPersistence, _internal/session_storage.py)  *)
(* and the session reconciler (SessionPersistentClient, session_client.py).*)
(*                                                                         *)
(* Conventions for Python values:                                          *)
(*   - scalar payloads (str, bool, int, float, opaque dict payloads) are   *)
(*     strings holding their JSON text; Python None is the string "None";  *)
(*   - datetimes are naturals (clock readings);                            *)
(*   - an optional object that is None is NoneObj;                         *)
(*   - a JSON value whose type the code depends on is a one-field record   *)
(*     naming the type: [str |-> s], [list |-> seq], [iso |-> t], ...      *)
(***************************************************************************)
EXTENDS Integers, Sequences, FiniteSets, TLC

\* ------------------------------------------------------------------ bounds

\* How many messages the transport yields in one behaviour.
MaxMsgs == 3
\* Largest reading of a clock that advances (datetime.now()).
MaxClock == 1
\* How many store writes raise in one behaviour.
MaxFaults == 1

\* ------------------------------------------------------------ Python values

None == "None"
NoneObj == [none |-> TRUE]

\* Session identifiers the server hands out.
Ids == {"a", "b"}

\* Python truthiness of an optional string: None and "" are falsy.
Truthy(s) == s # None /\ s # ""

\* dict.get(k, default)
Get(d, k, default) == IF k \in DOMAIN d THEN d[k] ELSE default

\* getattr(obj, k, None)
GetAttr(obj, k) == IF k \in DOMAIN obj THEN obj[k] ELSE None

\* ---------------------------------------------------- the message taxonomy

TextBlock(text) == [type |-> "TextBlock", text |-> text]

ToolUseBlock(id, name, input) ==
    [type |-> "ToolUseBlock", id |-> id, name |-> name, input |-> input]

ToolResultBlock(tool_use_id, content, is_error) ==
    [type |-> "ToolResultBlock", tool_use_id |-> tool_use_id,
     content |-> content, is_error |-> is_error]

UserMessage(content) == [type |-> "UserMessage", content |-> [str |-> content]]

AssistantMessage(content) ==
    [type |-> "AssistantMessage", content |-> [list |-> content]]

SystemMessage(subtype, data) ==
    [type |-> "SystemMessage", subtype |-> subtype, data |-> data]

ResultMessage(subtype, duration_ms, duration_api_ms, is_error, num_turns, session_id, total_cost_usd, usage, result) ==
    [type |-> "ResultMessage", subtype |-> subtype, duration_ms |-> duration_ms,
     duration_api_ms |-> duration_api_ms, is_error |-> is_error,
     num_turns |-> num_turns, session_id |-> session_id,
     total_cost_usd |-> total_cost_usd, usage |-> usage, result |-> result]

\* ClaudeCodeOptions, as far as the store reads it.
ClaudeCodeOptions(model, allowed_tools, permission_mode) ==
    [model |-> model, allowed_tools |-> allowed_tools,
     permission_mode |-> permission_mode]

SessionData(session_id, start_time, last_activity, conversation_history, working_directory, options) ==
    [session_id |-> session_id, start_time |-> start_time,
     last_activity |-> last_activity,
     conversation_history |-> conversation_history,
     working_directory |-> working_directory, options |-> options]

IsSessionData(d) == "session_id" \in DOMAIN d

\* ------------------------------------------------------------ serialization

\* One content block of an assistant message, as to_dict writes it.
BlockToDict(block) ==
    [type |-> block.type,
     text |-> GetAttr(block, "text"),
     id |-> GetAttr(block, "id"),
     name |-> GetAttr(block, "name"),
     input |-> GetAttr(block, "input"),
     tool_use_id |-> GetAttr(block, "tool_use_id"),
     is_error |-> GetAttr(block, "is_error")]

\* One message of the history, as to_dict writes it.
MessageToDict(msg) ==
    CASE msg.type = "UserMessage" ->
           [message_type |-> msg.type, content |-> msg.content]
      [] msg.type = "AssistantMessage" ->
           [message_type |-> msg.type,
            content |-> [list |-> [i \in 1..Len(msg.content.list) |->
                                      BlockToDict(msg.content.list[i])]]]
      [] msg.type = "SystemMessage" ->
           [message_type |-> msg.type, subtype |-> msg.subtype, data |-> msg.data]
      [] msg.type = "ResultMessage" ->
           [message_type |-> msg.type, subtype |-> msg.subtype,
            duration_ms |-> msg.duration_ms,
            duration_api_ms |-> msg.duration_api_ms,
            is_error |-> msg.is_error, num_turns |-> msg.num_turns,
            session_id |-> msg.session_id,
            total_cost_usd |-> msg.total_cost_usd,
            usage |-> msg.usage, result |-> msg.result]
      [] OTHER -> [message_type |-> msg.type]

\* datetime.isoformat(): the ISO-8601 string of a clock reading.
Isoformat(t) == [iso |-> t]

\* SessionData.to_dict
ToDict(sd) ==
    [session_id |-> sd.session_id,
     start_time |-> Isoformat(sd.start_time),
     last_activity |-> Isoformat(sd.last_activity),
     conversation_history |->
         [list |-> [i \in 1..Len(sd.conversation_history) |->
                       MessageToDict(sd.conversation_history[i])]],
     working_directory |-> sd.working_directory,
     options |-> IF sd.options # NoneObj
                 THEN [model |-> sd.options.model,
                       allowed_tools |-> sd.options.allowed_tools,
                       permission_mode |-> sd.options.permission_mode]
                 ELSE NoneObj]

\* The outcome of a step that may raise: [ok |-> value] or [exc |-> class].
\* "TypeError" stands for the classes load_session does not catch
\* (TypeError, AttributeError).
Ok(v) == [ok |-> v]
Raise(e) == [exc |-> e]
IsOk(r) == "ok" \in DOMAIN r
Raised(r) == "exc" \in DOMAIN r

Min(S) == CHOOSE x \in S : \A y \in S : x <= y

\* datetime.fromisoformat on a JSON value.
FromIsoformat(v) ==
    IF "iso" \in DOMAIN v THEN Ok(v.iso)
    ELSE IF "badstr" \in DOMAIN v THEN Raise("ValueError")
    ELSE Raise("TypeError")

\* One stored content block: [block |-> b], or [skip |-> TRUE] for a type
\* no branch of from_dict matches.
BlockFromDict(block_data) ==
    LET block_type == Get(block_data, "type", "") IN
    CASE block_type = "TextBlock" ->
           [block |-> TextBlock(Get(block_data, "text", ""))]
      [] block_type = "ToolUseBlock" ->
           [block |-> ToolUseBlock(Get(block_data, "id", ""),
                                   Get(block_data, "name", ""),
                                   Get(block_data, "input", "{}"))]
      [] block_type = "ToolResultBlock" ->
           [block |-> ToolResultBlock(Get(block_data, "tool_use_id", ""),
                                      Get(block_data, "content", None),
                                      Get(block_data, "is_error", None))]
      [] OTHER -> [skip |-> TRUE]

\* The content blocks of a stored assistant message.
BlocksFromDict(content) ==
    IF "list" \notin DOMAIN content THEN Raise("TypeError")
    ELSE LET parsed == [i \in 1..Len(content.list) |->
                           BlockFromDict(content.list[i])]
             kept == SelectSeq(parsed, LAMBDA p : "block" \in DOMAIN p)
         IN Ok([i \in 1..Len(kept) |-> kept[i].block])

\* One stored message: [ok |-> message], [skip |-> TRUE] for an unknown
\* message_type, or [exc |-> class].
MessageFromDict(msg_data) ==
    LET message_type == Get(msg_data, "message_type", "") IN
    CASE message_type = "UserMessage" ->
           IF "content" \notin DOMAIN msg_data THEN Raise("KeyError")
           ELSE Ok([type |-> "UserMessage", content |-> msg_data.content])
      [] message_type = "AssistantMessage" ->
           LET blocks == BlocksFromDict(Get(msg_data, "content", [list |-> <<>>]))
           IN IF Raised(blocks) THEN blocks ELSE Ok(AssistantMessage(blocks.ok))
      [] message_type = "SystemMessage" ->
           Ok(SystemMessage(Get(msg_data, "subtype", ""),
                            Get(msg_data, "data", "{}")))
      [] message_type = "ResultMessage" ->
           Ok(ResultMessage(Get(msg_data, "subtype", ""),
                            Get(msg_data, "duration_ms", "0"),
                            Get(msg_data, "duration_api_ms", "0"),
                            Get(msg_data, "is_error", "False"),
                            Get(msg_data, "num_turns", "0"),
                            Get(msg_data, "session_id", ""),
                            Get(msg_data, "total_cost_usd", None),
                            Get(msg_data, "usage", None),
                            Get(msg_data, "result", None)))
      [] OTHER -> [skip |-> TRUE]

\* Mutant of HistoryFromDict: the loop ends at the first message it cannot
\* rebuild, whatever the reason.
HistoryFromDictStops(history) ==
    IF "list" \notin DOMAIN history THEN Raise("TypeError")
    ELSE LET parsed == [i \in 1..Len(history.list) |->
                           MessageFromDict(history.list[i])]
             stop == {i \in 1..Len(history.list) : ~IsOk(parsed[i])}
             n == IF stop = {} THEN Len(parsed) ELSE Min(stop) - 1
         IN Ok([i \in 1..n |-> parsed[i].ok])

\* The loop over data["conversation_history"]: the first exception ends it.
HistoryFromDict(history) ==
    IF "list" \notin DOMAIN history THEN Raise("TypeError")
    ELSE LET parsed == [i \in 1..Len(history.list) |->
                           MessageFromDict(history.list[i])]
             bad == {i \in 1..Len(history.list) : Raised(parsed[i])}
             kept == SelectSeq(parsed, LAMBDA p : IsOk(p))
         IN IF bad # {} THEN parsed[Min(bad)]
            ELSE Ok([i \in 1..Len(kept) |-> kept[i].ok])

\* The options snapshot of a stored record.
OptionsFromDict(data) ==
    LET o == Get(data, "options", NoneObj) IN
    IF o = NoneObj THEN NoneObj
    ELSE ClaudeCodeOptions(Get(o, "model", None),
                           Get(o, "allowed_tools", "[]"),
                           Get(o, "permission_mode", None))

\* data[k] parsed as a timestamp.
TimeFromDict(data, k) ==
    IF k \notin DOMAIN data THEN Raise("KeyError") ELSE FromIsoformat(data[k])

\* SessionData.from_dict on a parsed JSON value.
FromDict(json) ==
    IF "dict" \notin DOMAIN json THEN Raise("TypeError")
    ELSE LET data == json.dict
             history == HistoryFromDict(
                            Get(data, "conversation_history", [list |-> <<>>]))
             start_time == TimeFromDict(data, "start_time")
             last_activity == TimeFromDict(data, "last_activity")
         IN CASE Raised(history) -> history
              [] "session_id" \notin DOMAIN data -> Raise("KeyError")
              [] Raised(start_time) -> start_time
              [] Raised(last_activity) -> last_activity
              [] OTHER ->
                   Ok(SessionData(data.session_id, start_time.ok,
                                  last_activity.ok, history.ok,
                                  Get(data, "working_directory", ""),
                                  OptionsFromDict(data)))

\* ----------------------------------------------------------------- the store

\* A backing file: Absent, [text |-> s] (bytes that are not JSON: an empty or
\* partly written file), or [json |-> v] (the text of JSON value v).
Absent == [absent |-> TRUE]
Truncated == [text |-> "truncated"]

\* json.dump into a file, json.load from it.
JsonDump(v) == [json |-> v]
JsonLoad(file) ==
    IF "json" \in DOMAIN file THEN Ok(file.json) ELSE Raise("JSONDecodeError")

Exists(file) == file # Absent

\* Mutant of SaveSession: the file is opened in append mode, so a write over
\* an existing file leaves two documents in it.
SaveSessionAppends(files, session_data) ==
    [files EXCEPT ![session_data.session_id] =
                      IF Exists(@) THEN [text |-> "appended"]
                      ELSE JsonDump([dict |-> ToDict(session_data)])]

\* SimpleSessionPersistence.save_session: the directory after the write.
SaveSession(files, session_data) ==
    [files EXCEPT ![session_data.session_id] =
                      JsonDump([dict |-> ToDict(session_data)])]

\* The exception classes load_session turns into None.
LoadCatches(e) == e \in {"JSONDecodeError", "KeyError", "ValueError"}

\* SimpleSessionPersistence.load_session: [ok |-> SessionData or NoneObj],
\* or [exc |-> class] when the exception escapes.
LoadSession(files, session_id) ==
    IF ~Exists(files[session_id]) THEN Ok(NoneObj)
    ELSE LET data == JsonLoad(files[session_id])
             parsed == IF Raised(data) THEN data ELSE FromDict(data.ok)
         IN IF IsOk(parsed) THEN parsed
            ELSE IF LoadCatches(parsed.exc) THEN Ok(NoneObj)
            ELSE parsed

\* Ascending order of identifier strings.
IdOrder == <<"a", "b">>
IdRank(id) == CHOOSE i \in 1..Len(IdOrder) : IdOrder[i] = id

\* sorted(session_ids)
RECURSIVE Sorted(_)
Sorted(S) ==
    IF S = {} THEN <<>>
    ELSE LET m == CHOOSE x \in S : \A y \in S : IdRank(x) <= IdRank(y)
         IN <<m>> \o Sorted(S \ {m})

\* Mutant of ListSessions: the identifiers in the order the directory scan
\* yields them.
ListSessionsUnsorted(files) ==
    LET listed == Sorted({id \in Ids : Exists(files[id])})
    IN [i \in 1..Len(listed) |-> listed[Len(listed) + 1 - i]]

\* SimpleSessionPersistence.list_sessions
ListSessions(files) == Sorted({id \in Ids : Exists(files[id])})

\* Mutant of DeleteSession: every file of the directory is removed.
DeleteSessionAll(files, session_id) ==
    IF Exists(files[session_id]) THEN [id \in Ids |-> Absent] ELSE files

\* SimpleSessionPersistence.delete_session: the directory after the call,
\* and the value returned.
DeleteSession(files, session_id) ==
    IF Exists(files[session_id]) THEN [files EXCEPT ![session_id] = Absent]
    ELSE files
DeleteReturns(files, session_id) ==
    IF Exists(files[session_id]) THEN "True" ELSE "False"

\* -------------------------------------------------------------------- state

VARIABLES
    files,               \* the storage directory: identifier -> backing file
    options,             \* self._client.options
    current_session_id,  \* self._current_session_id
    session_data,        \* self._session_data
    now,                 \* the clock datetime.now() reads
    pc,                  \* where the running receive loop stands
    message,             \* the message the loop holds
    old_session_id,      \* the local of _handle_message_persistence
    pre,                 \* the reconciler's state when the handler was entered
    last,                \* the last operation that returned or raised
    received,            \* how many messages the transport has yielded
    forwarded,           \* the messages handed to the caller, by number
    faults,              \* how many store writes have raised
    horizon,             \* the last reading the clock reaches
    waiting              \* the frame of the receive loop that is not running

vars == <<files, options, current_session_id, session_data, now, pc, message,
          old_session_id, pre, last, received, forwarded, faults, horizon, waiting>>

client == <<options, current_session_id, session_data, pc, message,
            old_session_id, pre, received, forwarded, faults, horizon, waiting>>

\* SimpleSessionPersistence.__init__ on a fresh directory and
\* SessionPersistentClient.__init__, under a clock that reaches `end`.
InitWith(end) ==
    /\ files = [id \in Ids |-> Absent]
    /\ options = NoneObj
    /\ current_session_id = None
    /\ session_data = NoneObj
    /\ now = 0
    /\ pc = "idle"
    /\ message = NoneObj
    /\ old_session_id = None
    /\ pre = NoneObj
    /\ last = [op |-> "init"]
    /\ received = 0
    /\ forwarded = <<>>
    /\ faults = 0
    /\ horizon = end
    /\ waiting = [pc |-> "idle", message |-> NoneObj, old_session_id |-> None]

\* The clock is too coarse to advance within the behaviour.
Init == InitWith(0)

\* ------------------------------------------------- the store, used directly

\* The messages of the taxonomy, one of each variant and block kind.
UserHello == UserMessage("Hello")
AssistantText == AssistantMessage(<<TextBlock("hi")>>)
AssistantToolUse == AssistantMessage(<<ToolUseBlock("tu1", "Bash", "{cmd}")>>)
AssistantToolResult ==
    AssistantMessage(<<ToolResultBlock("tu1", "output", "False")>>)
SystemInit == SystemMessage("init", "{data}")
Result(session_id) ==
    ResultMessage("success", "1200", "800", "False", "1", session_id,
                  "0.01", "{usage}", "done")

StoreMessages ==
    {UserHello, AssistantText, AssistantToolUse, AssistantToolResult,
     SystemInit, Result("a")}

\* Histories of the records handed to the store: none, one message of each
\* kind, and two orders of a pair.
StoreHistories ==
    {<<>>} \cup {<<m>> : m \in StoreMessages}
           \cup {<<UserHello, Result("a")>>, <<Result("a"), UserHello>>}

DefaultOptions == ClaudeCodeOptions("model-x", "[Bash]", "default")

\* The records save_session is handed in the store's own specification.
StoreRecords ==
    {SessionData(id, 0, 1, h, "/tmp", o) :
        id \in Ids, h \in StoreHistories,
        o \in {NoneObj, DefaultOptions}}

\* What a storage directory that is already there may hold under a key:
\* nothing, a file cut short, a file of JSON that is no record, or the record
\* an earlier client saved.
EarlierRecord(id) ==
    SessionData(id, 0, 0, <<UserMessage("Earlier"), AssistantText>>, "/earlier",
                NoneObj)

ExistingFiles(id) ==
    {Absent, Truncated, JsonDump([list |-> <<>>]),
     JsonDump([dict |-> ToDict(EarlierRecord(id))])}

\* SimpleSessionPersistence.__init__ on a directory that exists already
\* (mkdir with exist_ok), and SessionPersistentClient.__init__.
InitExisting ==
    /\ files \in {f \in [Ids -> UNION {ExistingFiles(id) : id \in Ids}] :
                     \A id \in Ids : f[id] \in ExistingFiles(id)}
    /\ options = NoneObj
    /\ current_session_id = None
    /\ session_data = NoneObj
    /\ now = 0
    /\ pc = "idle"
    /\ message = NoneObj
    /\ old_session_id = None
    /\ pre = NoneObj
    /\ last = [op |-> "init"]
    /\ received = 0
    /\ forwarded = <<>>
    /\ faults = 0
    /\ horizon = 0
    /\ waiting = [pc |-> "idle", message |-> NoneObj, old_session_id |-> None]

\* A well-formed stored record with nothing optional in it.
MinimalDict(id) ==
    [session_id |-> id, start_time |-> Isoformat(0), last_activity |-> Isoformat(1)]

WithHistory(id, msgs) ==
    [dict |-> [session_id |-> id, start_time |-> Isoformat(0),
               last_activity |-> Isoformat(1),
               conversation_history |-> [list |-> msgs]]]

\* Backing files save_session did not write: damaged, hand-edited, or written
\* by another version of the format.
ForeignFiles(id) ==
    {Truncated,
     JsonDump([list |-> <<>>]),
     JsonDump([dict |-> MinimalDict(id)]),
     JsonDump([dict |-> [start_time |-> Isoformat(0),
                         last_activity |-> Isoformat(1)]]),
     JsonDump([dict |-> [session_id |-> id, last_activity |-> Isoformat(1)]]),
     JsonDump([dict |-> [session_id |-> id, start_time |-> [badstr |-> TRUE],
                         last_activity |-> Isoformat(1)]]),
     JsonDump([dict |-> [session_id |-> id, start_time |-> Isoformat(0),
                         last_activity |-> [num |-> TRUE]]]),
     JsonDump([dict |-> [session_id |-> id, start_time |-> Isoformat(0),
                         last_activity |-> Isoformat(1),
                         conversation_history |-> [null |-> TRUE]]]),
     JsonDump(WithHistory(id, <<[message_type |-> "UserMessage"]>>)),
     JsonDump(WithHistory(id, <<MessageToDict(UserHello),
                                [message_type |-> "FutureMessage"],
                                MessageToDict(Result(id))>>)),
     JsonDump(WithHistory(id, <<[message_type |-> "FutureMessage"]>>))}

\* persistence.save_session(record)
StoreSave(sd) ==
    /\ files' = SaveSession(files, sd)
    /\ last' = [op |-> "save", id |-> sd.session_id, record |-> sd]
    /\ UNCHANGED <<client, now>>

\* persistence.load_session(id)
StoreLoad(id) ==
    /\ last' = [op |-> "load", id |-> id, result |-> LoadSession(files, id)]
    /\ UNCHANGED <<files, client, now>>

\* persistence.list_sessions()
StoreList ==
    /\ last' = [op |-> "list", listed |-> ListSessions(files)]
    /\ UNCHANGED <<files, client, now>>

\* persistence.delete_session(id)
StoreDelete(id) ==
    /\ files' = DeleteSession(files, id)
    /\ last' = [op |-> "delete", id |-> id, returned |-> DeleteReturns(files, id)]
    /\ UNCHANGED <<client, now>>

\* Something other than save_session leaves a file under the key.
ForeignWrite(id, file) ==
    /\ files' = [files EXCEPT ![id] = file]
    /\ last' = [op |-> "foreign", id |-> id]
    /\ UNCHANGED <<client, now>>

StoreNext ==
    \/ \E sd \in StoreRecords : StoreSave(sd)
    \/ \E id \in Ids : StoreLoad(id)
    \/ StoreList
    \/ \E id \in Ids : StoreDelete(id)
    \/ \E id \in Ids : \E file \in ForeignFiles(id) : ForeignWrite(id, file)

\* The store driven directly, over a directory that may hold foreign files.
SpecStore == Init /\ [][StoreNext]_vars

\* ------------------------------------------------------------ the reconciler

\* The messages the transport yields. Only a ResultMessage has a session_id
\* attribute.
LiveMessages == {UserHello, AssistantToolResult, Result("a"), Result("b")}

\* Lines 213-217: the identifier a message carries, or None.
MessageSessionId(msg) ==
    IF msg.type = "ResultMessage" /\ "session_id" \in DOMAIN msg
    THEN msg.session_id
    ELSE GetAttr(msg, "session_id")

\* A later reading of the clock.
Later(t) == t..horizon

\* str(Path.cwd())
Cwd == "/work"

\* ClaudeCodeOptions() with its defaults, and the resume target.
NewOptions ==
    [model |-> None, allowed_tools |-> "[]", permission_mode |-> None,
     resume |-> None]

\* The fields of the options object a session record is serialized with.
Snapshot(o) ==
    IF o = NoneObj THEN NoneObj
    ELSE ClaudeCodeOptions(o.model, o.allowed_tools, o.permission_mode)

\* Mutant of AddMessage: only a message that carries an identifier is kept
\* in the history.
AddMessageIfLabelled(sd, msg, t) ==
    [sd EXCEPT !.conversation_history =
                   IF "session_id" \in DOMAIN msg THEN Append(@, msg) ELSE @,
               !.last_activity = t]

\* SessionData.add_message followed by line 259.
AddMessage(sd, msg, t) ==
    [sd EXCEPT !.conversation_history = Append(@, msg), !.last_activity = t]

\* Mutant of Rekey: a new record is made for the new identifier and the
\* history is not carried over.
RekeyFresh(sd, session_id, t) ==
    SessionData(session_id, sd.start_time, t, <<>>, sd.working_directory,
                sd.options)

\* Mutant of Rekey: the record under the new identifier starts anew at the
\* time of the rename.
RekeyRestarts(sd, session_id, t) ==
    [sd EXCEPT !.session_id = session_id, !.start_time = t,
               !.last_activity = t]

\* Mutant of Rekey: the record in memory keeps the identifier it was created
\* with.
RekeyKeepsId(sd, session_id, t) == [sd EXCEPT !.last_activity = t]

\* Lines 229-233: the record rewritten for its new identifier.
Rekey(sd, session_id, t) ==
    [sd EXCEPT !.session_id = session_id, !.last_activity = t]

\* What a write that raised part-way may leave in the directory: the file as
\* it was (open() raised) or emptied (the dump raised after open("w")).
Interrupted(session_id) ==
    {files, [files EXCEPT ![session_id] = Truncated]}

Snap == [sid |-> current_session_id, data |-> session_data, files |-> files]

\* receive_messages / receive_response take the next message from the
\* transport and enter _handle_message_persistence: lines 213-233 (an
\* identifier change with a record in memory) or 242-254 (without one), up to
\* the first write.
Receive(msg) ==
    /\ pc = "idle"
    /\ received < MaxMsgs
    /\ received' = received + 1
    /\ message' = msg
    /\ pre' = Snap
    /\ LET session_id == MessageSessionId(msg) IN
       IF Truthy(session_id) /\ session_id # current_session_id
       THEN /\ old_session_id' = current_session_id
            /\ current_session_id' = session_id
            /\ IF session_data # NoneObj
               THEN /\ \E t \in Later(now) :
                         /\ now' = t
                         /\ session_data' = Rekey(session_data, session_id, t)
                    /\ pc' = "rename_save"
                    /\ UNCHANGED last
               ELSE LET loaded == LoadSession(files, session_id) IN
                    IF Raised(loaded)
                    THEN /\ pc' = "idle"
                         /\ last' = [op |-> "on_message", raised |-> TRUE,
                                     write |-> FALSE]
                         /\ UNCHANGED <<session_data, now>>
                    ELSE /\ pc' = "add_message"
                         /\ UNCHANGED last
                         /\ IF loaded.ok # NoneObj
                            THEN /\ session_data' = loaded.ok
                                 /\ UNCHANGED now
                            ELSE \E t1 \in Later(now) : \E t2 \in Later(t1) :
                                   /\ now' = t2
                                   /\ session_data' =
                                        SessionData(session_id, t1, t2, <<>>,
                                                    Cwd, Snapshot(options))
       ELSE /\ pc' = IF session_data # NoneObj THEN "add_message" ELSE "yield"
            /\ UNCHANGED <<old_session_id, current_session_id, session_data,
                           now, last>>
    /\ UNCHANGED <<files, options, forwarded, faults, horizon, waiting>>

\* Mutant of RenameSave: the old file is copied to the new key as it is.
RenameCopiesFile ==
    /\ pc = "rename_save"
    /\ files' = [files EXCEPT ![session_data.session_id] = files[old_session_id]]
    /\ pc' = IF Truthy(old_session_id) THEN "rename_delete" ELSE "add_message"
    /\ UNCHANGED <<options, current_session_id, session_data, now, message,
                   old_session_id, pre, last, received, forwarded, faults, horizon, waiting>>

\* Line 236 returns: the record is saved under its new identifier.
RenameSave ==
    /\ pc = "rename_save"
    /\ files' = SaveSession(files, session_data)
    /\ pc' = IF Truthy(old_session_id) THEN "rename_delete" ELSE "add_message"
    /\ UNCHANGED <<options, current_session_id, session_data, now, message,
                   old_session_id, pre, last, received, forwarded, faults, horizon, waiting>>

\* Mutant of Propagate: the exception is caught and logged, and the loop goes
\* on to yield the message.
Swallow ==
    /\ pc' = "yield"
    /\ faults < MaxFaults
    /\ faults' = faults + 1
    /\ UNCHANGED <<options, current_session_id, message, old_session_id, pre,
                   last, received, forwarded, horizon, waiting>>

\* A write raises: nothing in lines 91-113 and 199-262 catches, so the
\* exception leaves _handle_message_persistence and the receive loop.
Propagate ==
    /\ pc' = "idle"
    /\ last' = [op |-> "on_message", raised |-> TRUE, write |-> TRUE]
    /\ faults < MaxFaults
    /\ faults' = faults + 1
    /\ UNCHANGED <<options, current_session_id, message, old_session_id, pre,
                   received, forwarded, horizon, waiting>>

\* Line 236 raises.
RenameSaveRaises ==
    /\ pc = "rename_save"
    /\ files' \in Interrupted(session_data.session_id)
    /\ UNCHANGED <<session_data, now>>
    /\ Propagate

\* Lines 239-240 return: the file of the old identifier is removed.
RenameDelete ==
    /\ pc = "rename_delete"
    /\ files' = DeleteSession(files, old_session_id)
    /\ pc' = "add_message"
    /\ UNCHANGED <<options, current_session_id, session_data, now, message,
                   old_session_id, pre, last, received, forwarded, faults, horizon, waiting>>

\* Line 240 raises: unlink() fails on a file that exists.
RenameDeleteRaises ==
    /\ pc = "rename_delete"
    /\ Exists(files[old_session_id])
    /\ UNCHANGED <<files, session_data, now>>
    /\ Propagate

\* Lines 257-262 return: the message is appended and the record saved.
AddAndSave ==
    /\ pc = "add_message"
    /\ \E t \in Later(now) :
         /\ now' = t
         /\ session_data' = AddMessage(session_data, message, t)
    /\ files' = SaveSession(files, session_data')
    /\ pc' = "yield"
    /\ UNCHANGED <<options, current_session_id, message, old_session_id, pre,
                   last, received, forwarded, faults, horizon, waiting>>

\* Line 262 raises, after the append of lines 258-259.
AddAndSaveRaises ==
    /\ pc = "add_message"
    /\ \E t \in Later(now) :
         /\ now' = t
         /\ session_data' = AddMessage(session_data, message, t)
    /\ files' \in Interrupted(session_data.session_id)
    /\ Propagate

\* Mutant of Yield: the loop yields the message before the handler has
\* appended and saved it.
YieldBeforePersist ==
    /\ pc \in {"yield", "add_message"}
    /\ forwarded' = Append(forwarded, received)
    /\ pc' = "idle"
    /\ last' = [op |-> "on_message", raised |-> FALSE, write |-> FALSE]
    /\ UNCHANGED <<files, options, current_session_id, session_data, now,
                   message, old_session_id, pre, received, faults, horizon, waiting>>

\* Lines 101 / 113: the message is handed to the caller.
Yield ==
    /\ pc = "yield"
    /\ forwarded' = Append(forwarded, received)
    /\ pc' = "idle"
    /\ last' = [op |-> "on_message", raised |-> FALSE, write |-> FALSE]
    /\ UNCHANGED <<files, options, current_session_id, session_data, now,
                   message, old_session_id, pre, received, faults, horizon, waiting>>

\* start_or_resume_session(session_id)
Resume(session_id) ==
    /\ pc = "idle"
    /\ IF Truthy(session_id)
       THEN LET loaded == LoadSession(files, session_id) IN
            IF Raised(loaded)
            THEN /\ last' = [op |-> "resume", id |-> session_id,
                             raised |-> TRUE, write |-> FALSE]
                 /\ UNCHANGED <<session_data, current_session_id, options>>
            ELSE /\ session_data' = loaded.ok
                 /\ current_session_id' =
                        IF loaded.ok # NoneObj THEN session_id
                        ELSE current_session_id
                 /\ options' =
                        [(IF options = NoneObj THEN NewOptions ELSE options)
                            EXCEPT !.resume = session_id]
                 /\ last' = [op |-> "resume", id |-> session_id,
                             raised |-> FALSE, write |-> FALSE]
       ELSE /\ options' = IF options # NoneObj
                          THEN [options EXCEPT !.resume = None]
                          ELSE options
            /\ current_session_id' = None
            /\ session_data' = NoneObj
            /\ last' = [op |-> "resume", id |-> session_id,
                             raised |-> FALSE, write |-> FALSE]
    /\ pre' = NoneObj
    /\ message' = NoneObj
    /\ old_session_id' = None
    /\ UNCHANGED <<files, now, pc, received, forwarded, faults, horizon, waiting>>

\* Mutant of Disconnect: the file of the session is removed when the client
\* disconnects.
DisconnectRemoves ==
    /\ pc = "idle"
    /\ IF session_data # NoneObj
       THEN /\ \E t \in Later(now) :
                 /\ now' = t
                 /\ session_data' = [session_data EXCEPT !.last_activity = t]
            /\ files' = [files EXCEPT ![session_data.session_id] = Absent]
       ELSE UNCHANGED <<now, session_data, files>>
    /\ last' = [op |-> "disconnect", raised |-> FALSE, write |-> FALSE]
    /\ pre' = Snap
    /\ message' = NoneObj
    /\ old_session_id' = None
    /\ UNCHANGED <<options, current_session_id, pc, received, forwarded, faults,
                   horizon, waiting>>

\* disconnect() returns: lines 147-149 and the transport's disconnect.
Disconnect ==
    /\ pc = "idle"
    /\ IF session_data # NoneObj
       THEN /\ \E t \in Later(now) :
                 /\ now' = t
                 /\ session_data' = [session_data EXCEPT !.last_activity = t]
            /\ files' = SaveSession(files, session_data')
       ELSE UNCHANGED <<now, session_data, files>>
    /\ last' = [op |-> "disconnect", raised |-> FALSE, write |-> FALSE]
    /\ pre' = Snap
    /\ message' = NoneObj
    /\ old_session_id' = None
    /\ UNCHANGED <<options, current_session_id, pc, received, forwarded, faults,
                   horizon, waiting>>

\* Line 149 raises.
DisconnectRaises ==
    /\ pc = "idle"
    /\ session_data # NoneObj
    /\ \E t \in Later(now) :
         /\ now' = t
         /\ session_data' = [session_data EXCEPT !.last_activity = t]
    /\ files' \in Interrupted(session_data.session_id)
    /\ last' = [op |-> "disconnect", raised |-> TRUE, write |-> TRUE]
    /\ pre' = Snap
    /\ faults < MaxFaults
    /\ faults' = faults + 1
    /\ message' = NoneObj
    /\ old_session_id' = None
    /\ UNCHANGED <<options, current_session_id, pc, received, forwarded, horizon, waiting>>

\* delete_session(session_id), called between messages.
Delete(session_id) ==
    /\ pc = "idle"
    /\ files' = DeleteSession(files, session_id)
    /\ last' = [op |-> "delete", id |-> session_id,
                returned |-> DeleteReturns(files, session_id)]
    /\ pre' = NoneObj
    /\ message' = NoneObj
    /\ old_session_id' = None
    /\ UNCHANGED <<options, current_session_id, session_data, now, pc, received,
                   forwarded, faults, horizon, waiting>>

\* Mutant of Suspends: the store does its file I/O through awaits that
\* suspend, so a loop can also be suspended at each of its store calls.
SuspendsAtStoreCalls(p) ==
    p \in {"idle", "rename_save", "rename_delete", "add_message"}

\* Where a receive loop gives the event loop to another task: waiting for
\* the transport's next message (lines 98, 110) and after its yield (lines
\* 101, 113). The awaits at lines 236, 240, 245 and 262 run coroutines of the
\* store that contain no await (session_storage.py lines 200-232), so they
\* return without suspending.
Suspends(p) == p = "idle"

\* The event loop runs the other receive loop: receive_messages and
\* receive_response driven from two tasks of one client.
Switch ==
    /\ Suspends(pc)
    /\ pc' = waiting.pc
    /\ message' = waiting.message
    /\ old_session_id' = waiting.old_session_id
    /\ waiting' = [pc |-> pc, message |-> message,
                   old_session_id |-> old_session_id]
    /\ UNCHANGED <<files, options, current_session_id, session_data, now, pre,
                   last, received, forwarded, faults, horizon>>

Next ==
    \/ \E msg \in LiveMessages : Receive(msg)
    \/ RenameSave
    \/ RenameDelete
    \/ AddAndSave
    \/ Yield
    \/ \E session_id \in Ids \cup {None} : Resume(session_id)
    \/ Disconnect
    \/ \E session_id \in Ids : Delete(session_id)

\* One client over one storage directory whose writes all succeed. A teardown
\* of the process leaves the directory as it stands in the state it strikes.
Spec == Init /\ [][Next]_vars

NextFaults ==
    \/ Next
    \/ RenameSaveRaises
    \/ RenameDeleteRaises
    \/ AddAndSaveRaises
    \/ DisconnectRaises

\* The same, with store writes that may raise.
SpecFaults == Init /\ [][NextFaults]_vars

\* The same as Spec, under a clock that advances.
SpecTime == InitWith(MaxClock) /\ [][Next]_vars

NextMessages ==
    \/ \E msg \in LiveMessages : Receive(msg)
    \/ RenameSave
    \/ RenameDelete
    \/ AddAndSave
    \/ Yield

\* A fresh client over an empty directory that only receives messages.
SpecMessages == Init /\ [][NextMessages]_vars

\* The same as Spec, with the two receive loops driven from two tasks.
SpecTasks == Init /\ [][Next \/ Switch]_vars

\* The same as Spec, over a storage directory that exists already.
SpecExisting == InitExisting /\ [][Next]_vars

\* ------------------------------------------------------------------- claims

IsPrefix(s, t) == Len(s) <= Len(t) /\ SubSeq(t, 1, Len(s)) = s

\* The handler has returned for `message` and the loop is about to yield it.
Returned == pc = "yield"

\* The identifier the handled message carries.
Carried == MessageSessionId(message)

\* load_session found a record under the key.
Found(loaded) == IsOk(loaded) /\ IsSessionData(loaded.ok)

\* The handler was entered with a record in memory under identifier pre.sid
\* and the message carried another identifier.
Renamed ==
    /\ pre # NoneObj
    /\ pre.data # NoneObj
    /\ pre.data.session_id = pre.sid
    /\ Truthy(Carried)
    /\ Carried # pre.sid

\* C1: when the handler is entered with a current record under A whose history
\* H is not empty, and the message carries another identifier B, it returns
\* with load(B) a record of session_id B and history H followed by the
\* message, load(A) absent, and current_session_id = B.
C1_RenamePreservesHistory ==
    (Returned /\ Renamed /\ pre.data.conversation_history # <<>>) =>
        LET loaded == LoadSession(files, Carried) IN
        /\ Found(loaded)
        /\ loaded.ok.session_id = Carried
        /\ loaded.ok.conversation_history =
               Append(pre.data.conversation_history, message)
        /\ LoadSession(files, pre.sid) = Ok(NoneObj)
        /\ current_session_id = Carried

\* The store entry holds exactly this history.
HoldsHistory(file_map, session_id, history) ==
    LET loaded == LoadSession(file_map, session_id) IN
    Found(loaded) /\ loaded.ok.conversation_history = history

\* C2: in a rename from A to B the save under B is complete before the delete
\* of A begins, and at every point of the rename (so also after a teardown at
\* that point) entry A or entry B holds the complete pre-rename history, given
\* that entry A was a stored record when the handler was entered.
C2_SaveThenDelete ==
    (pc \in {"rename_save", "rename_delete"}
       /\ Found(LoadSession(pre.files, old_session_id))) =>
        /\ pc = "rename_delete" =>
              files[current_session_id] =
                  JsonDump([dict |-> ToDict(session_data)])
        /\ \/ HoldsHistory(files, old_session_id,
                           pre.data.conversation_history)
           \/ HoldsHistory(files, current_session_id,
                           pre.data.conversation_history)

\* C3: when the handler is entered with no current record and the message
\* carries an identifier C with load(C) absent, it returns with
\* current_session_id = C, a current record of session_id C whose history is
\* that one message, and a store entry under C holding that one message.
C3_FreshIdentifier ==
    (Returned /\ pre.data = NoneObj /\ Truthy(Carried)
       /\ LoadSession(pre.files, Carried) = Ok(NoneObj)) =>
        /\ current_session_id = Carried
        /\ session_data # NoneObj
        /\ session_data.session_id = Carried
        /\ session_data.conversation_history = <<message>>
        /\ HoldsHistory(files, Carried, <<message>>)

\* The message just handled is the last of the record and the record is
\* what the store holds under its identifier.
Persisted ==
    session_data # NoneObj =>
        /\ session_data.conversation_history # <<>>
        /\ session_data.conversation_history[
               Len(session_data.conversation_history)] = message
        /\ files[session_data.session_id] =
               JsonDump([dict |-> ToDict(session_data)])

\* C4: a message is handed to the caller only after its reconciliation,
\* store write included, is complete, and messages are handled and handed
\* on in the order the transport yields them.
C4_PersistBeforeForward ==
    /\ \A i \in 1..Len(forwarded) :
          /\ forwarded[i] <= received
          /\ i > 1 => forwarded[i - 1] < forwarded[i]
    /\ (pc # "idle" /\ forwarded # <<>>) =>
           forwarded[Len(forwarded)] < received
    /\ (pc = "idle" /\ last.op = "on_message" /\ ~last.raised) =>
           /\ forwarded # <<>>
           /\ forwarded[Len(forwarded)] = received
           /\ Persisted

C4_Witness ==
    /\ pc = "idle" /\ last.op = "on_message" /\ ~last.raised
    /\ Len(forwarded) >= 2
    /\ session_data # NoneObj
    /\ faults > 0

\* C5: when the handler returns and a current record exists,
\* load(current_session_id) is a record with the session_id and the history
\* of the record in memory.
C5_DiskReflectsMemory ==
    (Returned /\ session_data # NoneObj) =>
        LET loaded == LoadSession(files, current_session_id) IN
        /\ Found(loaded)
        /\ loaded.ok.session_id = session_data.session_id
        /\ loaded.ok.conversation_history = session_data.conversation_history

\* A step of start_or_resume_session.
ResumeStep == pc = "idle" /\ pc' = "idle" /\ last'.op = "resume"

\* C6: in every step other than a resume, a current record stays and its
\* history before the step is a prefix of its history after it.
C6_AppendOnly ==
    [][(session_data # NoneObj /\ ~ResumeStep) =>
          /\ session_data' # NoneObj
          /\ IsPrefix(session_data.conversation_history,
                      session_data'.conversation_history)]_vars

C6_Witness ==
    /\ Returned /\ Renamed
    /\ Len(pre.data.conversation_history) >= 2
    /\ Len(session_data.conversation_history) >= 3

\* C7: every store entry that parses holds a record whose session_id is the
\* key it is stored under.
C7_KeyMatchesIdentifier ==
    \A id \in Ids :
        Found(LoadSession(files, id)) =>
            LoadSession(files, id).ok.session_id = id

C7_Witness ==
    /\ pc = "rename_delete"
    /\ Found(LoadSession(files, old_session_id))
    /\ Found(LoadSession(files, current_session_id))

\* C8: a store write that raises ends the operation at once with the
\* exception handed to the caller: the message is not handed on, and no
\* further write is made for it.
C8_WriteFailuresSurface ==
    [][faults' > faults =>
          /\ "raised" \in DOMAIN last'
          /\ last'.raised /\ last'.write
          /\ pc' = "idle"
          /\ forwarded' = forwarded
          /\ pc # "idle" =>
                \A i \in 1..Len(forwarded') : forwarded'[i] # received'
          /\ files' \in Interrupted(session_data'.session_id)]_vars

C8_Witness ==
    /\ last.op = "on_message" /\ last.raised /\ last.write
    /\ pc = "idle"
    /\ files[session_data.session_id] = Truncated

\* C9: load never raises: it returns absent when no entry exists and when
\* the entry is not a valid serialized record.
C9_LoadNeverRaises ==
    last.op = "load" => IsOk(last.result)

\* C10: load after save(r) returns a record equal to r in session_id,
\* start_time, last_activity, working_directory and history.
C10_RoundTrip ==
    last.op = "save" =>
        LET loaded == LoadSession(files, last.id) IN
        /\ Found(loaded)
        /\ loaded.ok.session_id = last.record.session_id
        /\ loaded.ok.start_time = last.record.start_time
        /\ loaded.ok.last_activity = last.record.last_activity
        /\ loaded.ok.working_directory = last.record.working_directory
        /\ loaded.ok.conversation_history = last.record.conversation_history

\* C11: delete(id) on a key with an entry returns true and removes that entry
\* and no other; delete(id) on a key without one returns false and changes
\* nothing; a list never names a key without an entry, and a key gets an
\* entry only by a write under that key.
C11_DeleteSemantics ==
    [][/\ (last'.op = "delete" /\ Exists(files[last'.id])) =>
              /\ last'.returned = "True"
              /\ files' = [files EXCEPT ![last'.id] = Absent]
       /\ (last'.op = "delete" /\ ~Exists(files[last'.id])) =>
              /\ last'.returned = "False"
              /\ files' = files
       /\ last'.op = "list" =>
              \A i \in 1..Len(last'.listed) : Exists(files'[last'.listed[i]])
       /\ \A id \in Ids :
              (~Exists(files[id]) /\ Exists(files'[id])) =>
                  (last'.op \in {"save", "foreign"} /\ last'.id = id)]_vars

C11_Witness ==
    /\ last.op = "delete" /\ last.returned = "True"
    /\ \E id \in Ids \ {last.id} : Exists(files[id])

\* C12: list returns exactly the identifiers that have an entry, each once,
\* in ascending order, and changes nothing in the store.
C12_ListExact ==
    [][last'.op = "list" =>
          LET listed == last'.listed IN
          /\ files' = files
          /\ {listed[i] : i \in 1..Len(listed)} =
                 {id \in Ids : Exists(files[id])}
          /\ \A i, j \in 1..Len(listed) :
                 i < j => IdRank(listed[i]) < IdRank(listed[j])]_vars

C12_Witness == last.op = "list" /\ Len(last.listed) = 2

\* C13: save(r) followed by save(r) leaves the store as one save(r) does, and
\* save(r) changes no entry other than the one keyed r.session_id.
C13_IdempotentSave ==
    [][last'.op = "save" =>
          /\ SaveSession(files', last'.record) = files'
          /\ \A id \in Ids \ {last'.id} : files'[id] = files[id]]_vars

C13_Witness ==
    /\ last.op = "save"
    /\ \E id \in Ids \ {last.id} : Exists(files[id])

\* C14: a save that is interrupted leaves the entry as it was or holding the
\* new record: every entry of the store loads as a record, in every state.
C14_SaveAllOrNothing ==
    \A id \in Ids : Exists(files[id]) => Found(LoadSession(files, id))

\* C15: resume(id) with an identifier sets the transport's resume target to
\* id whether or not the store has an entry for id; a record that load(id)
\* finds becomes the current record, with current_session_id = id; the store
\* and the live connection are left alone.
C15_ResumeTarget ==
    [][(ResumeStep /\ Truthy(last'.id)) =>
          LET loaded == LoadSession(files, last'.id) IN
          /\ options' # NoneObj
          /\ options'.resume = last'.id
          /\ Found(loaded) =>
                 (session_data' = loaded.ok /\ current_session_id' = last'.id)
          /\ files' = files
          /\ received' = received
          /\ forwarded' = forwarded]_vars

\* The loop is inside _handle_message_persistence.
InHandler(p) == p \in {"rename_save", "rename_delete", "add_message"}

\* C16: two invocations of the handler never interleave: while one receive
\* loop runs, the other is never suspended inside the handler, so each
\* invocation is one uninterrupted step for the other.
C16_NoInterleaving == ~InHandler(waiting.pc)

C16_Witness ==
    /\ InHandler(pc)
    /\ waiting.message # NoneObj
    /\ waiting.message # message
    /\ session_data # NoneObj
    /\ Len(session_data.conversation_history) >= 1

\* C17: under a clock that does not go back, the current record has
\* last_activity >= start_time in every state, and in every step other than a
\* resume that leaves a current record in place its start_time is unchanged
\* and its last_activity does not decrease.
C17_Timestamps ==
    [][/\ session_data' # NoneObj =>
              session_data'.last_activity >= session_data'.start_time
       /\ (session_data # NoneObj /\ session_data' # NoneObj /\ ~ResumeStep) =>
              /\ session_data'.start_time = session_data.start_time
              /\ session_data'.last_activity >= session_data.last_activity]_vars

C17_Witness ==
    /\ Returned /\ Renamed
    /\ pre.data.start_time < now
    /\ pre.data.last_activity < session_data.last_activity

\* The handler was entered right after a resume(id) that left no current
\* record: its load found nothing it could use.
AfterResumeMiss ==
    /\ last.op = "resume"
    /\ Truthy(last.id)
    /\ pre.data = NoneObj

\* C18: after a resume(id) whose load is absent or corrupt, the next handler
\* call with a message carrying an identifier X returns with a current
\* record of session_id X whose history ends with the message, saved in the
\* store under X.
C18_ResumeMissStartsFresh ==
    (Returned /\ AfterResumeMiss /\ Truthy(Carried)) =>
        /\ session_data # NoneObj
        /\ session_data.session_id = Carried
        /\ session_data.conversation_history # <<>>
        /\ session_data.conversation_history[
               Len(session_data.conversation_history)] = message
        /\ files[Carried] = JsonDump([dict |-> ToDict(session_data)])

\* The handler was entered right after a resume(X) that found the record of
\* X, with a message of that session.
AfterResumeHit ==
    /\ last.op = "resume"
    /\ Truthy(last.id)
    /\ pre.data # NoneObj
    /\ pre.data.session_id = last.id
    /\ Carried \in {None, last.id}

\* C19: when the handler is entered with no current record and the message
\* carries an identifier X whose store entry is a record with history H and
\* start_time T, it returns with the entry under X holding H followed by the
\* message and start_time T; the same for a message received after
\* resume(X) found the record.
C19_StoredHistoryAdopted ==
    /\ (Returned /\ pre.data = NoneObj /\ Truthy(Carried)
          /\ Found(LoadSession(pre.files, Carried))) =>
           LET before == LoadSession(pre.files, Carried).ok
               after == LoadSession(files, Carried)
           IN /\ Found(after)
              /\ after.ok.conversation_history =
                     Append(before.conversation_history, message)
              /\ after.ok.start_time = before.start_time
    /\ (Returned /\ AfterResumeHit
          /\ Found(LoadSession(pre.files, last.id))) =>
           LET before == LoadSession(pre.files, last.id).ok
               after == LoadSession(files, last.id)
           IN /\ Found(after)
              /\ after.ok.conversation_history =
                     Append(before.conversation_history, message)
              /\ after.ok.start_time = before.start_time

\* C20: a handler call with a message that carries no identifier leaves
\* current_session_id alone and renames and deletes nothing: with a current
\* record the message is appended and the record saved under its key, which
\* is the only entry that changes; without one the record stays absent and
\* the store is unchanged.
C20_NoIdentifier ==
    (Returned /\ ~Truthy(Carried)) =>
        /\ current_session_id = pre.sid
        /\ pre.data # NoneObj =>
               /\ session_data # NoneObj
               /\ session_data =
                      [pre.data EXCEPT
                          !.conversation_history = Append(@, message),
                          !.last_activity = session_data.last_activity]
               /\ files =
                      [pre.files EXCEPT ![pre.data.session_id] =
                           JsonDump([dict |-> ToDict(session_data)])]
        /\ pre.data = NoneObj =>
               (session_data = NoneObj /\ files = pre.files)

C20_Witness ==
    /\ Returned /\ ~Truthy(Carried)
    /\ pre.data # NoneObj
    /\ pre.data.conversation_history # <<>>
    /\ \E id \in Ids \ {pre.data.session_id} : Exists(files[id])
    /\ faults > 0

\* C21: a store entry disappears only in a delete(id), which removes id and
\* nothing else, and in the rename step of the handler, which removes the
\* identifier that was current when the handler was entered and nothing
\* else; no other step removes an entry.
C21_KeysDisappear ==
    [][\A id \in Ids :
          (Exists(files[id]) /\ ~Exists(files'[id])) =>
              /\ \A other \in Ids \ {id} : files'[other] = files[other]
              /\ \/ /\ pc = "idle" /\ pc' = "idle"
                    /\ last'.op = "delete"
                    /\ last'.id = id
                 \/ /\ pc = "rename_delete"
                    /\ Renamed
                    /\ id = pre.sid]_vars

C21_Witness ==
    /\ pc = "add_message"
    /\ Renamed
    /\ Exists(pre.files[pre.sid])
    /\ ~Exists(files[pre.sid])

\* disconnect() has just returned; pre is the state it was called in.
Finalized == pc = "idle" /\ last.op = "disconnect" /\ ~last.raised

\* C22: finalize with a current record leaves its history and session_id as
\* they were, does not move last_activity back, and saves the record once
\* under current_session_id, after which the store entry loads as the record
\* in memory; without a current record it leaves the store unchanged.
C22_Finalize ==
    Finalized =>
        /\ pre.data # NoneObj =>
               LET loaded == LoadSession(files, current_session_id) IN
               /\ session_data # NoneObj
               /\ session_data.session_id = pre.data.session_id
               /\ session_data.conversation_history =
                      pre.data.conversation_history
               /\ session_data.start_time = pre.data.start_time
               /\ session_data.last_activity >= pre.data.last_activity
               /\ files = [pre.files EXCEPT ![current_session_id] =
                               JsonDump([dict |-> ToDict(session_data)])]
               /\ Found(loaded)
               /\ loaded.ok.session_id = session_data.session_id
               /\ loaded.ok.start_time = session_data.start_time
               /\ loaded.ok.last_activity = session_data.last_activity
               /\ loaded.ok.conversation_history =
                      session_data.conversation_history
        /\ pre.data = NoneObj => files = pre.files

\* The discriminator tags from_dict has a branch for.
Recognized(msg_data) ==
    Get(msg_data, "message_type", "") \in
        {"UserMessage", "AssistantMessage", "SystemMessage", "ResultMessage"}

\* The file holds a JSON object with a list under "conversation_history".
HasHistory(file) ==
    /\ "json" \in DOMAIN file
    /\ "dict" \in DOMAIN file.json
    /\ "conversation_history" \in DOMAIN file.json.dict
    /\ "list" \in DOMAIN file.json.dict.conversation_history

\* C23: load of an entry returns what load of the same entry without its
\* messages of unrecognized tag returns: when that is a record, a record
\* whose history is the stored messages of recognized tag, one for one and in
\* the stored order.
C23_UnknownSkipped ==
    (last.op = "load" /\ HasHistory(files[last.id])) =>
        LET data == files[last.id].json.dict
            kept == SelectSeq(data.conversation_history.list, Recognized)
            expected ==
                FromDict([dict |-> [data EXCEPT
                                       !.conversation_history = [list |-> kept]]])
        IN IsOk(expected) =>
              /\ last.result = expected
              /\ Len(last.result.ok.conversation_history) = Len(kept)
              /\ \A i \in 1..Len(kept) :
                     last.result.ok.conversation_history[i].type =
                         kept[i].message_type

C23_Witness ==
    /\ last.op = "load"
    /\ HasHistory(files[last.id])
    /\ \E i \in 1..Len(files[last.id].json.dict.conversation_history.list) :
           ~Recognized(files[last.id].json.dict.conversation_history.list[i])
    /\ Found(last.result)
    /\ Len(last.result.ok.conversation_history) = 2

\* C24: a record the handler synthesizes for an identifier it sees for the
\* first time has start_time = last_activity when it is created, before the
\* message is appended.
C24_SynthesizedTimestamps ==
    (pc = "add_message" /\ pre.data = NoneObj
       /\ ~Found(LoadSession(pre.files, Carried))) =>
        session_data.start_time = session_data.last_activity

\* C25: between handler calls of a client that only receives messages, the
\* store has no entry until a message has carried an identifier and from then
\* on exactly one, keyed by current_session_id; the history of the record is
\* the first message that carried an identifier followed by every message
\* since, each call adding its message at the end, and the entry holds that
\* history.
C25_NoOrphans ==
    pc \in {"idle", "yield"} =>
        LET entries == {id \in Ids : Exists(files[id])} IN
        /\ Cardinality(entries) <= 1
        /\ current_session_id = None =>
               (entries = {} /\ session_data = NoneObj)
        /\ current_session_id # None =>
               /\ entries = {current_session_id}
               /\ session_data # NoneObj
               /\ session_data.conversation_history =
                      IF pre.data = NoneObj THEN <<message>>
                      ELSE Append(pre.data.conversation_history, message)
               /\ HoldsHistory(files, current_session_id,
                               session_data.conversation_history)

\* C26: whenever a current record exists, current_session_id is present and
\* is the session_id of the record.
C26_IdentityAgreement ==
    session_data # NoneObj =>
        /\ Truthy(current_session_id)
        /\ current_session_id = session_data.session_id

C26_Witness ==
    /\ pc = "idle"
    /\ last.op = "on_message" /\ last.raised
    /\ session_data # NoneObj
    /\ pre.data # NoneObj
    /\ session_data.session_id # pre.data.session_id

\* C27: when the handler renames the current record from A to B and the
\* store held a record under B when the handler was entered, the history of
\* that record is still in the store when the handler returns.
C27_RenameKeepsOther ==
    (Returned /\ Renamed /\ Found(LoadSession(pre.files, Carried))) =>
        LET other == LoadSession(pre.files, Carried).ok.conversation_history
        IN \E id \in Ids :
              /\ Found(LoadSession(files, id))
              /\ IsPrefix(other,
                          LoadSession(files, id).ok.conversation_history)

\* C28: when a store write raises in the handler, current_session_id and the
\* session_id and history of the current record are what they were when the
\* handler was entered.
C28_StateUnchangedOnFailure ==
    (pc = "idle" /\ last.op = "on_message" /\ last.raised /\ last.write) =>
        /\ current_session_id = pre.sid
        /\ pre.data = NoneObj => session_data = NoneObj
        /\ pre.data # NoneObj =>
               /\ session_data # NoneObj
               /\ session_data.session_id = pre.data.session_id
               /\ session_data.conversation_history =
                      pre.data.conversation_history

====
